---- MODULE Spec2Model ----
(***************************************************************************)
(* A model of build.rs, the build script of the avr-libc crate: the        *)
(* decision whether the native library is bootstrapped, configured and     *)
(* compiled, the selection of the headers handed to bindgen, the bindgen   *)
(* configuration, and the cargo directives printed at the end.             *)
(*                                                                         *)
(* A file name is a sequence of one-character strings, so that file_stem,  *)
(* extension and starts_with are computed as the code computes them.  A    *)
(* header path is the pair of the directory below avr-libc/include ("" for *)
(* the include directory itself) and the file name: the components of the  *)
(* path that follow <libc_dir>/include.                                    *)
(***************************************************************************)
EXTENDS Naturals, Sequences, FiniteSets

VARIABLES
    arch,        \* cfg!(arch = "avr") of the build script
    lookup,      \* what avr_mcu::current::mcu_name() returns as an Option
    libExists,   \* static_lib_path.exists() when main starts
    hostSet,     \* whether the environment variable HOST is set
    tree,        \* directory -> its listing (what fs::read_dir yields)
    present,     \* the directories of the include tree that exist
    pc,          \* position of main
    fatal,       \* the panic that ended the run, or NoFatal
    warned,      \* the cargo:warning line was printed
    invoked,     \* the external commands run so far, with their outcome
    clangArgs,   \* the clang arguments given to the bindgen builder
    dirIdx,      \* base_headers: index of the directory being read
    entryIdx,    \* headers_inside: index of the next entry, 0 before read_dir
    cur,         \* headers_inside: its local vector `headers`
    headers,     \* base_headers: its vector `headers`
    verdict,     \* path -> what is_header_blacklisted returned for it
    registered,  \* the headers given to builder.header, in order
    generated,   \* "no", "ok" or "failed": builder.generate()
    written,     \* "no", "ok" or "failed": bindings.write_to_file
    directives   \* the cargo:rustc-link-* lines printed

vars == <<arch, lookup, libExists, hostSet, tree, present, pc, fatal, warned,
          invoked, clangArgs, dirIdx, entryIdx, cur, headers, verdict,
          registered, generated, written, directives>>

env == <<arch, lookup, libExists, hostSet, tree, present>>

----------------------------------------------------------------------------
(* Bounds                                                                  *)

\* Each directory's listing is its full listing rotated by 0..MaxShift.
MaxShift == 1

----------------------------------------------------------------------------
(* File names                                                              *)

n_stdlib_h    == <<"s","t","d","l","i","b",".","h">>
n_stdfix_h    == <<"s","t","d","f","i","x","-","a","v","r","l","i","b","c",".","h">>
n_Makefile    == <<"M","a","k","e","f","i","l","e">>
n_avr         == <<"a","v","r">>
n_delay_h     == <<"d","e","l","a","y",".","h">>
n_delay_basic_h == <<"d","e","l","a","y","_","b","a","s","i","c",".","h">>
n_setbaud_h   == <<"s","e","t","b","a","u","d",".","h">>
n_crc16_h     == <<"c","r","c","1","6",".","h">>
n_atomic_h    == <<"a","t","o","m","i","c",".","h">>
n_ioctl_h     == <<"i","o","c","t","l",".","h">>
n_types_h     == <<"t","y","p","e","s",".","h">>
n_d_h         == <<"d",".","h">>
n_dot_h       == <<".","h">>
n_io_h        == <<"i","o",".","h">>
n_iom328p_h   == <<"i","o","m","3","2","8","p",".","h">>
n_sleep_h     == <<"s","l","e","e","p",".","h">>
n_boot_h      == <<"b","o","o","t",".","h">>
n_parity_h    == <<"p","a","r","i","t","y",".","h">>
n_signal_h    == <<"s","i","g","n","a","l",".","h">>
n_wdt_h       == <<"w","d","t",".","h">>
n_interrupt_h == <<"i","n","t","e","r","r","u","p","t",".","h">>
n_version_h_in == <<"v","e","r","s","i","o","n",".","h",".","i","n">>
n_portpins_H  == <<"p","o","r","t","p","i","n","s",".","H">>

\* include_path.join("<dir>/<name>"): the components after the include root.
Header(dir, name) == [dir |-> dir, name |-> name]

HEADER_BLACKLIST ==
    << Header("avr", n_crc16_h), Header("avr", n_parity_h), Header("avr", n_delay_h),
       Header("avr", n_signal_h),
       Header("avr", n_wdt_h),
       Header("", n_stdfix_h),
       Header("util", n_delay_h), Header("util", n_delay_basic_h),
       Header("util", n_setbaud_h) >>

DEVICE_SPECIFIC_HEADERS ==
    << Header("avr", n_boot_h),
       Header("avr", n_sleep_h),
       Header("util", n_crc16_h) >>

----------------------------------------------------------------------------
(* Option values: None is the empty sequence, Some(x) the sequence <<x>>.  *)

None == <<>>
Some(x) == <<x>>

----------------------------------------------------------------------------
(* The environment a run starts in                                         *)

McuNames == {"atmega328", "atmega328p", "atmega9999"}

Dirs == {"", "util", "sys", "avr"}

File(name) == [name |-> name, isFile |-> TRUE]
Directory(name) == [name |-> name, isFile |-> FALSE]

\* The entries of each directory of the include tree.
FullListing(dir) ==
    CASE dir = "" ->
           << File(n_stdlib_h), Directory(n_avr), File(n_stdfix_h), File(n_Makefile) >>
      [] dir = "util" ->
           << File(n_delay_h), File(n_crc16_h), File(n_atomic_h), File(n_setbaud_h) >>
      [] dir = "sys" ->
           << File(n_ioctl_h), Directory(n_d_h), File(n_types_h), File(n_dot_h) >>
      [] dir = "avr" ->
           << File(n_io_h), File(n_sleep_h), File(n_crc16_h), File(n_boot_h),
              File(n_iom328p_h), File(n_wdt_h), File(n_interrupt_h),
              File(n_version_h_in), File(n_portpins_H) >>

Rotate(s, k) == [i \in 1..Len(s) |-> s[((i - 1 + k) % Len(s)) + 1]]

Trees == { [d \in Dirs |-> Rotate(FullListing(d), k[d])] : k \in [Dirs -> 0..MaxShift] }

----------------------------------------------------------------------------
(* std::path::Path::file_stem and Path::extension on a file name           *)

RECURSIVE LastDot(_, _)
\* The index of the last "." among the first n characters of name, or 0.
LastDot(name, n) ==
    IF n = 0 THEN 0
    ELSE IF name[n] = "." THEN n
    ELSE LastDot(name, n - 1)

\* A faulty variant: only the stem "io" itself is matched.
starts_with_exact(s, prefix) == s = prefix

starts_with(s, prefix) ==
    /\ Len(s) >= Len(prefix)
    /\ SubSeq(s, 1, Len(prefix)) = prefix

file_stem(name) ==
    LET dot == LastDot(name, Len(name))
    IN  IF name = <<>> THEN None
        ELSE IF name = <<".", ".">> \/ dot <= 1 THEN Some(name)
        ELSE Some(SubSeq(name, 1, dot - 1))

extension(name) ==
    LET dot == LastDot(name, Len(name))
    IN  IF name = <<>> \/ name = <<".", ".">> \/ dot <= 1 THEN None
        ELSE Some(SubSeq(name, dot + 1, Len(name)))

----------------------------------------------------------------------------
(* The target                                                              *)

mcu_name == IF arch THEN lookup ELSE None

\* .expect("could not get mcu name") panics
mcu_name_panics == arch /\ lookup = None

is_building_documentation == IF arch THEN FALSE ELSE TRUE

----------------------------------------------------------------------------
(* The header filter                                                       *)

is_header_in_list(path, list) ==
    \E i \in DOMAIN list : Header(list[i].dir, list[i].name) = path

is_header_device_specific(path) ==
    is_header_in_list(path, DEVICE_SPECIFIC_HEADERS)

\* if let Some(stem) = path.file_stem() { if stem.starts_with("io") { return true } }
IoRule(path) ==
    LET stem == file_stem(path.name)
    IN  stem # None /\ starts_with(stem[1], <<"i", "o">>)

DenyRule(path) == is_header_in_list(path, HEADER_BLACKLIST)

DeviceRule(path) == mcu_name = None /\ is_header_device_specific(path)

\* A faulty variant: the device-specific rule is not gated on the microcontroller.
is_header_blacklisted_ungated(path) ==
    IF IoRule(path) THEN TRUE
    ELSE DenyRule(path) \/ is_header_device_specific(path)

\* A faulty variant: the parentheses also gate the blacklist on the microcontroller.
is_header_blacklisted_gated(path) ==
    IF IoRule(path) THEN TRUE
    ELSE (DenyRule(path) \/ is_header_device_specific(path)) /\ mcu_name = None

\* A faulty variant: && for ||.
is_header_blacklisted_both(path) ==
    IF IoRule(path) THEN TRUE
    ELSE DenyRule(path) /\ DeviceRule(path)

is_header_blacklisted(path) ==
    IF IoRule(path) THEN TRUE
    ELSE DenyRule(path) \/ DeviceRule(path)

----------------------------------------------------------------------------
(* The preprocessor name of the microcontroller                            *)

Returns(v) == [panic |-> FALSE, val |-> v]
Panics == [panic |-> TRUE, val |-> None]

\* A faulty variant: an unknown name gives no define instead of a panic.
mcu_define_name_silent ==
    IF mcu_name = None THEN Returns(None)
    ELSE CASE mcu_name[1] = "atmega328" -> Returns(Some("__AVR_ATmega328__"))
           [] mcu_name[1] = "atmega328p" -> Returns(Some("__AVR_ATmega328P__"))
           [] OTHER -> Returns(None)

\* A faulty variant: both names map to the define of the atmega328p.
mcu_define_name_copied ==
    IF mcu_name = None THEN Returns(None)
    ELSE CASE mcu_name[1] = "atmega328" -> Returns(Some("__AVR_ATmega328P__"))
           [] mcu_name[1] = "atmega328p" -> Returns(Some("__AVR_ATmega328P__"))
           [] OTHER -> Panics

mcu_define_name ==
    IF mcu_name = None THEN Returns(None)
    ELSE CASE mcu_name[1] = "atmega328" -> Returns(Some("__AVR_ATmega328__"))
           [] mcu_name[1] = "atmega328p" -> Returns(Some("__AVR_ATmega328P__"))
           [] OTHER -> Panics

----------------------------------------------------------------------------
(* The run                                                                 *)

NoFatal == "none"

\* What Command::status() can give: Ok with exit code zero, Ok with another
\* exit code, or Err (the command could not be started).
Outcomes == {"success", "failure", "spawn_error"}

EmptyVerdict == [p \in {} |-> FALSE]

Init ==
    /\ arch \in BOOLEAN
    /\ lookup \in {None} \cup {Some(n) : n \in McuNames}
    /\ libExists \in BOOLEAN
    /\ hostSet \in BOOLEAN
    /\ tree \in Trees
    /\ present \in {Dirs} \cup {Dirs \ {d} : d \in Dirs}
    /\ pc = "resolve"
    /\ fatal = NoFatal
    /\ warned = FALSE
    /\ invoked = <<>>
    /\ clangArgs = <<>>
    /\ dirIdx = 1
    /\ entryIdx = 0
    /\ cur = <<>>
    /\ headers = <<>>
    /\ verdict = EmptyVerdict
    /\ registered = <<>>
    /\ generated = "no"
    /\ written = "no"
    /\ directives = <<>>

\* panic!/expect/unwrap: the build script stops there.
Abort(kind) ==
    /\ pc' = "aborted"
    /\ fatal' = kind

\* main, line 56: mcu_name() is evaluated first, and warns when it is None.
Resolve ==
    /\ pc = "resolve"
    /\ IF mcu_name_panics
       THEN Abort("CannotDetermineMcu") /\ UNCHANGED warned
       ELSE /\ warned' = (mcu_name = None)
            /\ pc' = "guard"
            /\ UNCHANGED fatal
    /\ UNCHANGED <<env, invoked, clangArgs, dirIdx, entryIdx, cur, headers, verdict,
                   registered, generated, written, directives>>

\* if !static_lib_path.exists() && !is_building_documentation()
\* A faulty variant: the documentation build is not looked at.
needs_build_always == ~libExists

needs_build == ~libExists /\ ~is_building_documentation

Guard ==
    /\ pc = "guard"
    /\ pc' = IF needs_build THEN "bootstrap" ELSE "builder"
    /\ UNCHANGED <<env, fatal, warned, invoked, clangArgs, dirIdx, entryIdx, cur,
                   headers, verdict, registered, generated, written, directives>>

\* A faulty variant: the architecture directory is made before the include tree.
StageAfter_swapped(stage) ==
    CASE stage = "bootstrap" -> "configure"
      [] stage = "configure" -> "make_arch"
      [] stage = "make_arch" -> "make_include"
      [] stage = "make_include" -> "builder"

\* The order of the calls in the body of the guarded block of main, and
\* generate_bindings after it.
StageAfter(stage) ==
    CASE stage = "bootstrap" -> "configure"
      [] stage = "configure" -> "make_include"
      [] stage = "make_include" -> "make_arch"
      [] stage = "make_arch" -> "builder"

\* A faulty variant: the exit status is not looked at.
success_ignored(st) == TRUE

\* ExitStatus::success()
success(st) == st = "success"

\* cmd.status().expect(..) and the test of its exit status, shared by
\* bootstrap, configure and make.
RunCommand(stage, cwd, kind) ==
    \E st \in Outcomes :
        /\ invoked' = Append(invoked, [step |-> stage, cwd |-> cwd, outcome |-> st])
        /\ IF st = "spawn_error" THEN Abort(kind)
           ELSE IF ~success(st) THEN Abort(kind)
           ELSE pc' = StageAfter(stage) /\ UNCHANGED fatal

Bootstrap ==
    /\ pc = "bootstrap"
    /\ RunCommand("bootstrap", "libc_dir", "BootstrapFailed")
    /\ UNCHANGED <<env, warned, clangArgs, dirIdx, entryIdx, cur, headers, verdict,
                   registered, generated, written, directives>>

Configure ==
    /\ pc = "configure"
    /\ IF ~hostSet
       THEN Abort("HostUnset") /\ UNCHANGED invoked
       ELSE RunCommand("configure", "libc_dir", "ConfigureFailed")
    /\ UNCHANGED <<env, warned, clangArgs, dirIdx, entryIdx, cur, headers, verdict,
                   registered, generated, written, directives>>

MakeInclude ==
    /\ pc = "make_include"
    /\ RunCommand("make_include", "include_dir", "CompileFailed")
    /\ UNCHANGED <<env, warned, clangArgs, dirIdx, entryIdx, cur, headers, verdict,
                   registered, generated, written, directives>>

MakeArch ==
    /\ pc = "make_arch"
    /\ RunCommand("make_arch", "arch_dir", "CompileFailed")
    /\ UNCHANGED <<env, warned, clangArgs, dirIdx, entryIdx, cur, headers, verdict,
                   registered, generated, written, directives>>

----------------------------------------------------------------------------
(* generate_bindings                                                       *)

\* bindgen::builder() ... .clang_arg("-Iavr-libc/include").clang_arg("-ffreestanding")
Builder ==
    /\ pc = "builder"
    /\ clangArgs' = <<"-Iavr-libc/include", "-ffreestanding">>
    /\ pc' = "define"
    /\ UNCHANGED <<env, fatal, warned, invoked, dirIdx, entryIdx, cur, headers,
                   verdict, registered, generated, written, directives>>

\* if let Some(define_name) = mcu_define_name() { builder.clang_arg("-D" + define_name) }
Define ==
    /\ pc = "define"
    /\ LET r == mcu_define_name
       IN  IF r.panic
           THEN Abort("UnsupportedMcu") /\ UNCHANGED clangArgs
           ELSE /\ clangArgs' = IF r.val # None
                                THEN Append(clangArgs, "-D" \o r.val[1])
                                ELSE clangArgs
                /\ pc' = "collect"
                /\ UNCHANGED fatal
    /\ UNCHANGED <<env, warned, invoked, dirIdx, entryIdx, cur, headers, verdict,
                   registered, generated, written, directives>>

\* A faulty variant: sys is read before util.
DirOrder_swapped == <<"", "sys", "util", "avr">>

\* base_headers: the directories it reads, in the order it reads them.
DirOrder == <<"", "util", "sys", "avr">>

\* headers_inside: path.is_file() and Some(ext) if ext == "h"
is_header_file(entry) ==
    /\ entry.isFile
    /\ extension(entry.name) = Some(<<"h">>)

\* headers_inside: fs::read_dir(dir).unwrap()
ReadDir ==
    /\ pc = "collect"
    /\ entryIdx = 0
    /\ IF DirOrder[dirIdx] \notin present
       THEN Abort("ReadDirFailed") /\ UNCHANGED <<entryIdx, cur>>
       ELSE /\ entryIdx' = 1
            /\ cur' = <<>>
            /\ UNCHANGED <<pc, fatal>>
    /\ UNCHANGED <<env, warned, invoked, clangArgs, dirIdx, headers, verdict,
                   registered, generated, written, directives>>

\* headers_inside: one iteration of the loop over the entries.
VisitEntry ==
    /\ pc = "collect"
    /\ entryIdx >= 1
    /\ entryIdx <= Len(tree[DirOrder[dirIdx]])
    /\ LET entry == tree[DirOrder[dirIdx]][entryIdx]
           path == Header(DirOrder[dirIdx], entry.name)
       IN  IF is_header_file(entry)
           THEN LET blacklisted == is_header_blacklisted(path)
                IN  /\ verdict' = [p \in DOMAIN verdict \cup {path} |->
                                      IF p = path THEN blacklisted ELSE verdict[p]]
                    /\ cur' = IF ~blacklisted THEN Append(cur, path) ELSE cur
           ELSE UNCHANGED <<verdict, cur>>
    /\ entryIdx' = entryIdx + 1
    /\ UNCHANGED <<env, pc, fatal, warned, invoked, clangArgs, dirIdx, headers,
                   registered, generated, written, directives>>

\* headers_inside returns, and base_headers extends its vector with the result.
FinishDir ==
    /\ pc = "collect"
    /\ entryIdx > Len(tree[DirOrder[dirIdx]])
    /\ headers' = headers \o cur
    /\ cur' = <<>>
    /\ entryIdx' = 0
    /\ IF dirIdx = Len(DirOrder)
       THEN pc' = "register" /\ UNCHANGED dirIdx
       ELSE dirIdx' = dirIdx + 1 /\ UNCHANGED pc
    /\ UNCHANGED <<env, fatal, warned, invoked, clangArgs, verdict, registered,
                   generated, written, directives>>

\* for header_path in base_headers(libc_dir) { builder = builder.header(..) }
Register ==
    /\ pc = "register"
    /\ registered' = headers
    /\ pc' = "generate"
    /\ UNCHANGED <<env, fatal, warned, invoked, clangArgs, dirIdx, entryIdx, cur,
                   headers, verdict, generated, written, directives>>

\* builder.generate().expect("failed to create bindings")
Generate ==
    /\ pc = "generate"
    /\ \E ok \in BOOLEAN :
          IF ok
          THEN generated' = "ok" /\ pc' = "write" /\ UNCHANGED fatal
          ELSE generated' = "failed" /\ Abort("BindingGenerationFailed")
    /\ UNCHANGED <<env, warned, invoked, clangArgs, dirIdx, entryIdx, cur, headers,
                   verdict, registered, written, directives>>

\* bindings.write_to_file(BINDINGS_DEST).expect("could not write bindings to file")
WriteBindings ==
    /\ pc = "write"
    /\ \E ok \in BOOLEAN :
          IF ok
          THEN written' = "ok" /\ pc' = "link_search" /\ UNCHANGED fatal
          ELSE written' = "failed" /\ Abort("OutputWriteFailed")
    /\ UNCHANGED <<env, warned, invoked, clangArgs, dirIdx, entryIdx, cur, headers,
                   verdict, registered, generated, directives>>

\* println!("cargo:rustc-link-search={}", arch_dir.display())
LinkSearch ==
    /\ pc = "link_search"
    /\ directives' = Append(directives, "cargo:rustc-link-search=avr-libc/avr/lib/avr6")
    /\ pc' = "link_lib"
    /\ UNCHANGED <<env, fatal, warned, invoked, clangArgs, dirIdx, entryIdx, cur,
                   headers, verdict, registered, generated, written>>

\* println!("cargo:rustc-link-lib=static=c")
LinkLib ==
    /\ pc = "link_lib"
    /\ directives' = Append(directives, "cargo:rustc-link-lib=static=c")
    /\ pc' = "done"
    /\ UNCHANGED <<env, fatal, warned, invoked, clangArgs, dirIdx, entryIdx, cur,
                   headers, verdict, registered, generated, written>>

Next ==
    \/ Resolve
    \/ Guard
    \/ Bootstrap
    \/ Configure
    \/ MakeInclude
    \/ MakeArch
    \/ Builder
    \/ Define
    \/ ReadDir
    \/ VisitEntry
    \/ FinishDir
    \/ Register
    \/ Generate
    \/ WriteBindings
    \/ LinkSearch
    \/ LinkLib

Spec == Init /\ [][Next]_vars

----------------------------------------------------------------------------
(* Properties                                                              *)

Range(seq) == { seq[i] : i \in DOMAIN seq }

\* base_headers has returned.
CollectionDone ==
    \/ pc \in {"register", "generate", "write", "link_search", "link_lib", "done"}
    \/ generated = "failed"
    \/ written = "failed"

\* The external steps and their working directories, in the order of the design.
StageOrder == <<"bootstrap", "configure", "make_include", "make_arch">>
StageCwd == <<"libc_dir", "libc_dir", "include_dir", "arch_dir">>

\* C1: the external steps run in the order bootstrap, configure, make in the
\* include tree, make in the architecture directory; a step runs only if every
\* earlier step exited with success, each step runs at most once, and after the
\* first step that did not succeed no further step runs.
C1_StagesInOrder ==
    /\ Len(invoked) <= Len(StageOrder)
    /\ \A i \in DOMAIN invoked :
          /\ invoked[i].step = StageOrder[i]
          /\ invoked[i].cwd = StageCwd[i]
          /\ (i < Len(invoked) => invoked[i].outcome = "success")
    /\ (invoked # <<>> /\ invoked[Len(invoked)].outcome # "success" => pc = "aborted")

C1_Witness ==
    /\ Len(invoked) = Len(StageOrder)
    /\ invoked[Len(invoked)].outcome = "failure"

\* C2: the build stages are skipped if and only if the static archive exists or
\* the run is a documentation build: in either case no process is invoked, and
\* with the archive absent on a non-documentation build a run that has passed the
\* guard has started the bootstrap stage.
C2_GuardSkips ==
    /\ (libExists \/ is_building_documentation) =>
          /\ invoked = <<>>
          /\ pc \notin {"bootstrap", "configure", "make_include", "make_arch"}
    /\ (/\ ~libExists
        /\ ~is_building_documentation
        /\ pc \notin {"resolve", "guard"}
        /\ fatal # "CannotDetermineMcu") =>
          \/ pc = "bootstrap"
          \/ invoked # <<>> /\ invoked[1].step = "bootstrap"

C2_Witness ==
    /\ ~libExists
    /\ is_building_documentation
    /\ pc = "builder"
    /\ invoked = <<>>

\* C3: every header of DEVICE_SPECIFIC_HEADERS is excluded when no
\* microcontroller is resolved and eligible when one is, and none of them is
\* excluded by the io rule or by HEADER_BLACKLIST.
C3_DeviceSpecific ==
    \A i \in DOMAIN DEVICE_SPECIFIC_HEADERS :
        LET h == DEVICE_SPECIFIC_HEADERS[i]
        IN  /\ ~IoRule(h)
            /\ ~DenyRule(h)
            /\ is_header_blacklisted(h) = (mcu_name = None)
            /\ (h \in DOMAIN verdict => verdict[h] = (mcu_name = None))
            /\ (mcu_name = None => h \notin Range(headers) \cup Range(cur))

C3_Witness ==
    /\ mcu_name # None
    /\ Header("avr", n_sleep_h) \in DOMAIN verdict
    /\ ~verdict[Header("avr", n_sleep_h)]
    /\ Header("avr", n_sleep_h) \in Range(cur)

\* The file name begins with the two characters "io".
BeginsWithIo(name) == Len(name) >= 2 /\ name[1] = "i" /\ name[2] = "o"

\* C4: a header whose file name without its extension begins with "io" is
\* excluded, in every directory read and with or without a microcontroller.
C4_IoExcluded ==
    /\ \A p \in DOMAIN verdict : BeginsWithIo(p.name) => verdict[p]
    /\ \A d \in Dirs : \A i \in DOMAIN tree[d] :
          BeginsWithIo(tree[d][i].name) =>
              is_header_blacklisted(Header(d, tree[d][i].name))
    /\ \A p \in Range(headers) \cup Range(cur) \cup Range(registered) :
          ~BeginsWithIo(p.name)

C4_Witness ==
    /\ mcu_name # None
    /\ Header("sys", n_ioctl_h) \in DOMAIN verdict
    /\ verdict[Header("sys", n_ioctl_h)]
    /\ Header("avr", n_iom328p_h) \in DOMAIN verdict

\* C5: a header whose path below the include directory is an entry of
\* HEADER_BLACKLIST is excluded, with or without a microcontroller.
C5_DenyListExcluded ==
    \A i \in DOMAIN HEADER_BLACKLIST :
        LET h == HEADER_BLACKLIST[i]
        IN  /\ is_header_blacklisted(h)
            /\ (h \in DOMAIN verdict => verdict[h])
            /\ h \notin Range(headers) \cup Range(cur) \cup Range(registered)

C5_Witness ==
    /\ mcu_name # None
    /\ Header("util", n_delay_h) \in DOMAIN verdict
    /\ verdict[Header("util", n_delay_h)]
    /\ pc = "register"

\* The resolved microcontroller has no entry in the table of mcu_define_name.
UnknownMcu == mcu_name # None /\ mcu_name[1] \notin {"atmega328", "atmega328p"}

\* C6: with a microcontroller that has no entry in the define table,
\* generate_bindings stops with UnsupportedMcu: the generator is never run, no
\* header is registered, no define is set and no binding file is written.
C6_UnsupportedMcuFatal ==
    UnknownMcu =>
        /\ generated = "no"
        /\ registered = <<>>
        /\ written = "no"
        /\ headers = <<>>
        /\ \A i \in DOMAIN clangArgs :
              clangArgs[i] \in {"-Iavr-libc/include", "-ffreestanding"}
        /\ (clangArgs # <<>> /\ pc # "define" =>
              pc = "aborted" /\ fatal = "UnsupportedMcu")

C6_Witness ==
    /\ UnknownMcu
    /\ fatal = "UnsupportedMcu"
    /\ Len(invoked) = Len(StageOrder)

\* The end-to-end scenario: embedded architecture, atmega328, archive absent,
\* over a complete include tree.
Scenario == arch /\ lookup = Some("atmega328") /\ ~libExists /\ present = Dirs

BuildDone ==
    /\ Len(invoked) = Len(StageOrder)
    /\ \A i \in DOMAIN invoked :
          invoked[i].step = StageOrder[i] /\ invoked[i].outcome = "success"

CollectionStarted ==
    \/ pc = "collect" /\ (entryIdx >= 1 \/ dirIdx > 1)
    \/ fatal = "ReadDirFailed"
    \/ CollectionDone

DefineConfigured == "-D__AVR_ATmega328__" \in Range(clangArgs)

\* What the scenario says of the collected headers.
ScenarioHeaders ==
    /\ Header("avr", n_sleep_h) \in Range(headers)
    /\ Header("util", n_crc16_h) \in Range(headers)
    /\ Header("util", n_delay_h) \notin Range(headers)
    /\ \A p \in Range(headers) : ~BeginsWithIo(p.name)

FatalOccurred ==
    \/ mcu_name_panics /\ pc # "resolve"
    \/ invoked # <<>> /\ invoked[Len(invoked)].outcome # "success"
    \/ UnknownMcu /\ clangArgs # <<>> /\ pc # "define"
    \/ generated = "failed"
    \/ written = "failed"

NothingCollected ==
    /\ headers = <<>>
    /\ cur = <<>>
    /\ verdict = EmptyVerdict
    /\ registered = <<>>
    /\ generated = "no"
    /\ written = "no"

C8_AbortState ==
    /\ (FatalOccurred => pc = "aborted" /\ fatal # NoFatal)
    /\ (pc = "aborted" <=> fatal # NoFatal)
    /\ (pc = "aborted" => directives = <<>>)
    /\ (directives # <<>> => written = "ok" /\ generated = "ok")
    /\ (fatal = "CannotDetermineMcu" => invoked = <<>> /\ clangArgs = <<>> /\ NothingCollected)
    /\ (fatal \in {"BootstrapFailed", "ConfigureFailed", "CompileFailed"} =>
          clangArgs = <<>> /\ NothingCollected)
    /\ (fatal = "UnsupportedMcu" => NothingCollected)
    /\ (fatal = "BindingGenerationFailed" => written = "no")
    /\ (fatal = "OutputWriteFailed" => written = "failed")

\* C8: every fatal condition aborts the run at once: from then on no process is
\* invoked, no header is collected or registered, no binding file is written and
\* no link directive is printed; the link directives are printed only in runs
\* in which the binding file was written.
C8_FatalAborts ==
    /\ []C8_AbortState
    /\ [][fatal # NoFatal => UNCHANGED vars]_vars

C8_Witness ==
    /\ fatal = "BindingGenerationFailed"
    /\ registered # <<>>
    /\ Len(invoked) = Len(StageOrder)

\* The extension of the file name is exactly h.
EndsInDotH(name) ==
    /\ Len(name) >= 3
    /\ name[Len(name) - 1] = "."
    /\ name[Len(name)] = "h"

\* The eligible headers that are direct entries of directory d, in listing order.
EligibleIn(d) ==
    LET Keep(e) == e.isFile /\ EndsInDotH(e.name) /\ ~is_header_blacklisted(Header(d, e.name))
        kept == SelectSeq(tree[d], Keep)
    IN  [i \in 1..Len(kept) |-> Header(d, kept[i].name)]

\* C9: base_headers returns the eligible files with extension h that are direct
\* entries of include, include/util, include/sys and include/avr, in that order
\* of directories and in listing order within each, with no path twice; the
\* result is a function of the tree and of the microcontroller alone.
C9_CollectOrder ==
    CollectionDone =>
        /\ headers = EligibleIn("") \o EligibleIn("util") \o EligibleIn("sys") \o EligibleIn("avr")
        /\ \A i, j \in DOMAIN headers : headers[i] = headers[j] => i = j

C9_Witness ==
    /\ pc = "register"
    /\ mcu_name # None
    /\ EligibleIn("util") # <<>>
    /\ EligibleIn("sys") # <<>>
    /\ tree["avr"][1].name # n_io_h

\* The three rules, numbered.
Rule(k, path) ==
    CASE k = 1 -> IoRule(path)
      [] k = 2 -> DenyRule(path)
      [] k = 3 -> DeviceRule(path)

RuleOrders == { o \in [1..3 -> 1..3] : \A i, j \in 1..3 : o[i] = o[j] => i = j }

RECURSIVE ExcludedInOrder(_, _)
\* The rules applied in the given order, stopping at the first that excludes.
ExcludedInOrder(order, path) ==
    IF order = <<>> THEN FALSE
    ELSE IF Rule(Head(order), path) THEN TRUE
    ELSE ExcludedInOrder(Tail(order), path)

\* C10: the filter gives the same result under every order of the three rules: a
\* header is eligible if and only if none of the rules excludes it.
C10_OrderIndependent ==
    /\ \A p \in DOMAIN verdict :
          /\ \A o \in RuleOrders : verdict[p] = ExcludedInOrder(o, p)
          /\ (~verdict[p]) = (~IoRule(p) /\ ~DenyRule(p) /\ ~DeviceRule(p))
    /\ pc = "resolve" =>
          \A d \in Dirs : \A i \in DOMAIN tree[d] :
              LET p == Header(d, tree[d][i].name)
              IN  \A o \in RuleOrders : is_header_blacklisted(p) = ExcludedInOrder(o, p)

C10_Witness ==
    /\ mcu_name = None
    /\ Header("avr", n_boot_h) \in DOMAIN verdict
    /\ verdict[Header("avr", n_boot_h)]
    /\ Header("util", n_delay_h) \in DOMAIN verdict
    /\ Header("avr", n_io_h) \in DOMAIN verdict

====
